---- MODULE Spec2Model ----
(***************************************************************************)
(* Model of src/backend/app_kernel.py: the FastAPI endpoints that route    *)
(* human feedback, clarification and approvals to the agents, and the      *)
(* listing endpoints.  Each request is a coroutine; the actions below are  *)
(* the code between two awaits.  The Plan Store, the agent factory and the *)
(* agents' handlers live outside app_kernel.py; the handler that applies a *)
(* HumanFeedback to the store is modelled from spec.md (sections 4.1, 5).  *)
(***************************************************************************)
EXTENDS Naturals, Sequences, FiniteSets

\* ------------------------------------------------------------------ bounds
\* Steps owned by plan "p1" (ids 1..NSteps); plan "p2" owns step NSteps + 1.
NSteps == 2

\* ------------------------------------------------------------- input sets
Reqs == {"r1", "r2"}
Plans == {"p1", "p2"}
\* user_principal_id of the request headers; "" is the falsy value of line 301.
Users == {"", "u1"}
\* HumanFeedback.step_id is Optional: 0 stands for the absent (falsy) value.
NoStep == 0
P1Steps == 1 .. NSteps
StepIds == 1 .. (NSteps + 1)
StepArgs == {NoStep} \cup StepIds
Texts == {"fine", "harmful"}

StepStatus == {"planned", "awaiting_approval", "approved", "rejected", "completed", "failed"}
Pending == {"planned", "awaiting_approval"}

PlanOf(s) == IF s \in P1Steps THEN "p1" ELSE "p2"
StepsOf(p) == {s \in StepIds : PlanOf(s) = p}

VARIABLES
    rq,      \* request -> the coroutine's locals, position and response
    steps,   \* Plan Store: step id -> status
    plans,   \* Plan Store: plan id -> overall_status
    lock,    \* per-Plan critical section: plan id -> holder ("" when free)
    steps0,  \* the step statuses at start (never changes)
    lang     \* config: the process-wide user browser language

vars == <<rq, steps, plans, lock, steps0, lang>>

\* ---------------------------------------------------------- pure functions
\* overall_status as a function of the step statuses (spec.md 4.1).
Aggregate(st, p) ==
    LET S == {st[s] : s \in StepsOf(p)} IN
    IF S \cap Pending # {} THEN "awaiting_human"
    ELSE IF "approved" \in S THEN "in_progress"
    ELSE IF S = {"completed"} THEN "completed"
    ELSE "failed"

\* rai_success(text, False): the Content Safety Gate's verdict.
rai_success(text) == text = "fine"

\* `if not await rai_success(...)`: the endpoint rejects what the gate denies.
GateDeniesInverted(text) == rai_success(text)
GateDenies(text) == ~rai_success(text)

\* str(bool) as the f-string of line 578 formats it.
BoolStr(b) == IF b THEN "True" ELSE "False"

Status(msg, step, approved) == [msg |-> msg, step |-> step, approved |-> approved]
PlainStatus(msg) == Status(msg, NoStep, "")

\* The response of a request: kind of outcome, HTTP status code, body.
Response(kind, http, status, nsugg) ==
    [kind |-> kind, http |-> http, status |-> status, suggestions |-> nsugg]
NoResponse == Response("none", 0, PlainStatus(""), 0)

\* HTTPException(status_code=400, detail="no user")
NoUserError == Response("Unauthenticated", 400, PlainStatus("no user"), 0)
\* HTTPException(status_code=404, detail="Agent not found")
AgentNotFoundError == Response("AgentNotFound", 404, PlainStatus("Agent not found"), 0)
\* HTTPException(status_code=400, detail={... "suggestions": [4 strings] ...})
RaiSuggestions == 4
RaiError ==
    Response("ContentRejected", 400, PlainStatus("Clarification Safety Check Failed"),
             RaiSuggestions)
\* An exception that no handler of the endpoint catches: FastAPI answers 500.
Unhandled(what) == Response("Unhandled", 500, PlainStatus(what), 0)

Event(name, status) == [name |-> name, status |-> status]

\* The body of a listing response: aggregated plan records and agent messages.
Body(records, messages) == [records |-> records, messages |-> messages]
EmptyBody == Body(<<>>, {})
\* HTTPException(status_code=404, detail="Plan not found")
PlanNotFoundError == Response("PlanNotFound", 404, PlainStatus("Plan not found"), 0)
Ok(status) == Response("ok", 200, status, 0)

IdleReq ==
    [pc |-> "idle", op |-> "", user |-> "", plan |-> "p1", step |-> NoStep,
     approved |-> FALSE, text |-> "", client |-> "none", gate |-> FALSE,
     db |-> FALSE, dir |-> FALSE, agent |-> "", handler |-> FALSE, wrote |-> FALSE,
     snap |-> <<>>, events |-> <<>>, res |-> NoResponse,
     fault |-> "", reads |-> {}, team |-> "", fetch |-> [p \in Plans |-> "none"],
     got |-> [p \in Plans |-> <<>>], built |-> <<>>, body |-> EmptyBody,
     emitOk |-> TRUE, lost |-> FALSE, trace |-> FALSE, order |-> <<>>]

\* The languages a browser may send, and the one the configuration starts with.
Languages == {"en-US", "en-GB"}
DefaultLanguage == "en-US"

\* ------------------------------------------------------------------- Init
\* Every combination of statuses for the steps of "p1", up to the numbering of
\* the steps (no operation depends on which step of a plan carries which id, so
\* the statuses are listed in StatusOrder); the step of "p2" is planned.
StatusOrder == <<"planned", "awaiting_approval", "approved", "rejected", "completed", "failed">>
Rank(x) == CHOOSE i \in 1 .. Len(StatusOrder) : StatusOrder[i] = x
InitSteps ==
    {f \in [StepIds -> StepStatus] :
        /\ f[NSteps + 1] = "planned"
        /\ \A s \in P1Steps \ {NSteps} : Rank(f[s]) <= Rank(f[s + 1])}

Init ==
    /\ rq = [r \in Reqs |-> IdleReq]
    /\ steps \in InitSteps
    /\ plans = [p \in Plans |-> Aggregate(steps, p)]
    /\ lock = [p \in Plans |-> ""]
    /\ steps0 = steps
    /\ lang = DefaultLanguage

\* track_event_if_configured(name, attributes): the Telemetry Sink records the
\* event, or the emission fails and the event is lost (spec.md: fire-and-forget).
Emit(req, name, status) ==
    IF req.emitOk THEN [req EXCEPT !.events = Append(@, Event(name, status))]
    ELSE [req EXCEPT !.lost = TRUE]

\* What a request whose emission failed goes on to answer: the failure is
\* swallowed, the request ends as it would have ended.
FailedEmitRaises(lost, res) == IF lost THEN Unhandled("telemetry failed") ELSE res
AfterEmit(lost, res) == res

\* A request ends: the response is set and the coroutine is over.
Done(r, req, res) ==
    rq' = [rq EXCEPT ![r] = [req EXCEPT !.pc = "done", !.res = AfterEmit(req.lost, res)]]

\* get_authenticated_user_details(...)["user_principal_id"]; `if not user_id`
\* tracks "UserIdNotFound" and raises 400.
Unauthenticated(req) ==
    Emit(req, "UserIdNotFound", PlainStatus("no user"))

\* config.get_ai_project_client(): the handle the request acquires.  (When the
\* call raises, the except branch leaves client = None: nothing is acquired and
\* every `if client:` below is skipped, as CloseClient does for "none".)
ClientOutcomes == {"open"}

\* The session the mutating requests address: the one of plan "p1".  A step id
\* of "p2" is then a step that does not belong to the request's plan.
Session == "p1"

\* -------------------------------------------------------------- endpoints
\* POST /api/human_feedback up to the await of AgentFactory.create_agent:
\* identity, get_database, the execution client.
human_feedback_endpoint(r) ==
    /\ rq[r].pc = "idle"
    /\ \E u \in Users, s \in StepArgs, a \in BOOLEAN :
        LET req == [rq[r] EXCEPT !.op = "feedback", !.user = u, !.plan = Session,
                                 !.step = s, !.approved = a] IN
        IF u = ""
        THEN Done(r, Unauthenticated(req), NoUserError)
        ELSE \E c \in ClientOutcomes :
                rq' = [rq EXCEPT ![r] = [req EXCEPT !.pc = "create_agent", !.db = TRUE,
                                                    !.client = c]]
    /\ UNCHANGED <<steps, plans, lock, steps0, lang>>

\* POST /api/human_clarification_on_plan up to the await of create_agent: the
\* Content Safety Gate is awaited first (line 404), the identity comes after it.
human_clarification_endpoint(r) ==
    /\ rq[r].pc = "idle"
    /\ \E u \in Users, t \in Texts :
        LET req == [rq[r] EXCEPT !.op = "clarification", !.user = u, !.plan = Session,
                                 !.text = t, !.gate = TRUE] IN
        IF GateDenies(t)
        THEN Done(r, Emit(req, "RAI failed",
                          PlainStatus("Clarification rejected - RAI validation failed")),
                  RaiError)
        ELSE IF u = ""
        THEN Done(r, Unauthenticated(req), NoUserError)
        ELSE \E c \in ClientOutcomes :
                rq' = [rq EXCEPT ![r] = [req EXCEPT !.pc = "create_agent", !.db = TRUE,
                                                    !.client = c]]
    /\ UNCHANGED <<steps, plans, lock, steps0, lang>>

\* POST /api/approve_step_or_steps up to the await of create_all_agents.
approve_step_endpoint(r) ==
    /\ rq[r].pc = "idle"
    /\ \E u \in Users, s \in StepArgs, a \in BOOLEAN :
        LET req == [rq[r] EXCEPT !.op = "approve", !.user = u, !.plan = Session,
                                 !.step = s, !.approved = a] IN
        IF u = ""
        THEN Done(r, Unauthenticated(req), NoUserError)
        ELSE \E c \in ClientOutcomes :
                rq' = [rq EXCEPT ![r] = [req EXCEPT !.pc = "create_all_agents", !.db = TRUE,
                                                    !.client = c]]
    /\ UNCHANGED <<steps, plans, lock, steps0, lang>>

\* The fields of a HumanClarification (the endpoint's documented body): it has
\* no step_id, so reading human_clarification.step_id raises AttributeError.
HumanClarificationFields == {"plan_id", "session_id", "human_clarification", "user_id"}

\* `if human_agent is None:` of both endpoints: track "AgentNotFound", raise 404.
\* The event's attributes are built first and read <request>.step_id.
AgentNotFound(req) ==
    IF req.op = "clarification" /\ "step_id" \notin HumanClarificationFields
    THEN [req |-> req, res |-> Unhandled("AttributeError")]
    ELSE [req |-> Emit(req, "AgentNotFound", Status("Agent not found", req.step, "")),
          res |-> AgentNotFoundError]

\* What AgentFactory.create_agent(AgentType.HUMAN, ...) can give the endpoint.
CreateAgentOutcomes == {"agent", "None", "raises"}

\* The await of AgentFactory.create_agent resumes (feedback and clarification).
create_agent(r) ==
    /\ rq[r].pc = "create_agent"
    /\ \E o \in CreateAgentOutcomes :
        LET req == [rq[r] EXCEPT !.dir = TRUE, !.agent = o] IN
        CASE o = "agent" -> rq' = [rq EXCEPT ![r] = [req EXCEPT !.pc = "handler"]]
          [] o = "None" -> Done(r, AgentNotFound(req).req, AgentNotFound(req).res)
          [] o = "raises" -> Done(r, req, Unhandled("create_agent failed"))
    /\ UNCHANGED <<steps, plans, lock, steps0, lang>>

\* agents[AgentType.GROUP_CHAT_MANAGER.value] on the dict create_all_agents
\* returned: a missing key raises KeyError, which nothing catches.
GroupChatManagerLookup(present) ==
    IF present THEN NoResponse ELSE Unhandled("KeyError")

\* What AgentFactory.create_all_agents can give the endpoint.
CreateAllAgentsOutcomes == {"agents", "no_manager", "raises"}

\* The await of AgentFactory.create_all_agents resumes (approval).
create_all_agents(r) ==
    /\ rq[r].pc = "create_all_agents"
    /\ \E o \in CreateAllAgentsOutcomes :
        LET req == [rq[r] EXCEPT !.dir = TRUE, !.agent = o] IN
        CASE o = "raises" -> Done(r, req, Unhandled("create_all_agents failed"))
          [] OTHER ->
               IF GroupChatManagerLookup(o = "agents") = NoResponse
               THEN rq' = [rq EXCEPT ![r] = [req EXCEPT !.pc = "handler"]]
               ELSE Done(r, req, GroupChatManagerLookup(o = "agents"))
    /\ UNCHANGED <<steps, plans, lock, steps0, lang>>

\* ------------------------------------------------- the feedback handler
\* handle_human_feedback of the Human agent and of the group chat manager is
\* not part of app_kernel.py; it is modelled from spec.md 4.1 (submitFeedback)
\* and 5 (per-Plan critical section, one transactional write).

\* The request's step_id must belong to the request's plan (spec.md 4.1, 4.2).
AnyStepBelongs(req) == TRUE
StepBelongs(req) == req.step = NoStep \/ PlanOf(req.step) = req.plan

\* The steps a HumanFeedback acts on: the named step, or every step of the
\* plan (bulk); only a step that is planned or awaiting approval changes.
FeedbackTargets(req, st) ==
    {s \in StepsOf(req.plan) : (req.step = NoStep \/ req.step = s) /\ st[s] \in Pending}

\* approved = true moves a pending step to approved, approved = false to rejected.
ApplyFeedback(req, st) ==
    [s \in StepIds |-> IF s \in FeedbackTargets(req, st)
                       THEN (IF req.approved THEN "approved" ELSE "rejected")
                       ELSE st[s]]

\* The per-Plan critical section is free for this request.
NoCriticalSection(p) == TRUE
MayEnter(p) == lock[p] = ""

\* The store's steps after a commit that failed: the transaction wrote nothing.
PartialCommit(old, new) ==
    LET changed == {s \in StepIds : new[s] # old[s]} IN
    IF changed = {} THEN old
    ELSE LET first == CHOOSE s \in changed : \A u \in changed : s <= u
         IN [old EXCEPT ![first] = new[first]]
FailedCommit(old, new) == old

\* What the handler validates and loads: StepNotFound before anything is read,
\* then the plan's steps inside the plan's critical section.
HandlerLoad(r) ==
    /\ rq[r].pc = "handler"
    /\ rq[r].op \in {"feedback", "approve"}
    /\ LET req == [rq[r] EXCEPT !.handler = TRUE] IN
       \/ /\ ~StepBelongs(req)
          /\ Done(r, req, Response("StepNotFound", 404, PlainStatus("Step not found"), 0))
          /\ UNCHANGED lock
       \/ /\ StepBelongs(req)
          /\ MayEnter(req.plan)
          /\ lock' = [lock EXCEPT ![req.plan] = r]
          /\ rq' = [rq EXCEPT ![r] = [req EXCEPT !.pc = "commit", !.snap = steps]]
    /\ UNCHANGED <<steps, plans, steps0, lang>>

\* overall_status as the handler persists it with the steps: recomputed from
\* the statuses it writes (spec.md 4.1, "after mutation, recomputes").
StaleOverallStatus(old, new, p) == old
NewOverallStatus(old, new, p) == Aggregate(new, p)

\* The handler's write: the changed steps and the recomputed overall_status in
\* one transaction, or a failure that writes nothing; the section is left.
HandlerCommit(r) ==
    /\ rq[r].pc = "commit"
    /\ LET req == rq[r]
           new == ApplyFeedback(req, req.snap) IN
       \/ /\ steps' = [s \in StepIds |-> IF new[s] # req.snap[s] THEN new[s] ELSE steps[s]]
          /\ plans' = [plans EXCEPT ![req.plan] = NewOverallStatus(@, new, req.plan)]
          /\ rq' = [rq EXCEPT ![r] = [req EXCEPT !.pc = "respond", !.wrote = TRUE]]
       \/ /\ steps' = FailedCommit(steps, new)
          /\ plans' = plans
          /\ Done(r, [req EXCEPT !.fault = "store"], Unhandled("store write failed"))
    /\ lock' = [lock EXCEPT ![rq[r].plan] = ""]
    /\ UNCHANGED <<steps0, lang>>

\* handle_human_clarification of the Human agent: the hand-off; a clarification
\* never changes a Step or a Plan status (spec.md 4.1).
handle_human_clarification(r) ==
    /\ rq[r].pc = "handler"
    /\ rq[r].op = "clarification"
    /\ LET req == [rq[r] EXCEPT !.handler = TRUE] IN
       \/ rq' = [rq EXCEPT ![r] = [req EXCEPT !.pc = "respond"]]
       \/ Done(r, [req EXCEPT !.fault = "handler"], Unhandled("handler failed"))
    /\ UNCHANGED <<steps, plans, lock, steps0, lang>>

\* ------------------------------------------------------ the endpoints' tails
\* `if client: client.close()` of the three endpoints.
CloseClient(c) == IF c = "open" THEN "closed" ELSE c

\* The status of the approval: the f-string of lines 578 and 583, or the
\* constant of lines 588 and 591.
ApprovalStatusBulkWithValue(step, approved) ==
    IF step # NoStep
    THEN Status("Step - Approval", step, BoolStr(approved))
    ELSE Status("All steps approved", NoStep, BoolStr(approved))
ApprovalStatusAlwaysStep(step, approved) ==
    Status("Step - Approval", step, BoolStr(approved))
ApprovalStatus(step, approved) ==
    IF step # NoStep
    THEN Status("Step - Approval", step, BoolStr(approved))
    ELSE Status("All steps approved", NoStep, "")

\* The status of the event the approval tracks (lines 578 and 588).
ApprovalEventWithoutValue(step, approved) ==
    IF step # NoStep
    THEN Status("Step - Approval", step, "")
    ELSE Status("All steps approved", NoStep, "")
ApprovalEventStatus(step, approved) ==
    IF step # NoStep
    THEN Status("Step - Approval", step, BoolStr(approved))
    ELSE Status("All steps approved", NoStep, "")

\* The code after the handler's await: event, close, return.
Respond(r) ==
    /\ rq[r].pc = "respond"
    /\ LET req == rq[r]
           st == CASE req.op = "feedback" -> Status("Feedback received", req.step, "")
                   [] req.op = "clarification" -> PlainStatus("Clarification received")
                   [] OTHER -> ApprovalStatus(req.step, req.approved)
           ev == CASE req.op = "feedback" -> "Completed Feedback received"
                   [] req.op = "clarification" -> "Completed Human clarification on the plan"
                   [] req.step # NoStep -> "Completed Human clarification with step_id"
                   [] OTHER -> "Completed Human clarification without step_id"
           evst == IF req.op = "approve" THEN ApprovalEventStatus(req.step, req.approved)
                   ELSE st
       IN Done(r, [Emit(req, ev, evst) EXCEPT !.client = CloseClient(@)], Ok(st))
    /\ UNCHANGED <<steps, plans, lock, steps0, lang>>

\* ------------------------------------------------------ listing endpoints
\* plan_id of GET /api/plans: absent (""), a stored plan, or an unknown id.
PlanArgs == {"", "p1", "p9"}

\* GET /api/plans up to the await of DatabaseFactory.get_database.
get_plans(r) ==
    /\ rq[r].pc = "idle"
    /\ \E u \in Users, p \in PlanArgs :
        LET req == [rq[r] EXCEPT !.op = "plans", !.user = u, !.plan = p] IN
        IF u = ""
        THEN Done(r, Unauthenticated(req), NoUserError)
        ELSE rq' = [rq EXCEPT ![r] = [req EXCEPT !.pc = "list", !.db = TRUE]]
    /\ UNCHANGED <<steps, plans, lock, steps0, lang>>

\* GET /api/steps/{plan_id} up to the await of get_database.
get_steps_by_plan(r) ==
    /\ rq[r].pc = "idle"
    /\ \E u \in Users :
        LET req == [rq[r] EXCEPT !.op = "steps", !.user = u, !.plan = Session] IN
        IF u = ""
        THEN Done(r, Unauthenticated(req), NoUserError)
        ELSE rq' = [rq EXCEPT ![r] = [req EXCEPT !.pc = "list", !.db = TRUE]]
    /\ UNCHANGED <<steps, plans, lock, steps0, lang>>

\* GET /api/agent_messages/{session_id} up to the await of get_database.
get_agent_messages(r) ==
    /\ rq[r].pc = "idle"
    /\ \E u \in Users :
        LET req == [rq[r] EXCEPT !.op = "messages", !.user = u, !.plan = Session] IN
        IF u = ""
        THEN Done(r, Unauthenticated(req), NoUserError)
        ELSE rq' = [rq EXCEPT ![r] = [req EXCEPT !.pc = "list", !.db = TRUE]]
    /\ UNCHANGED <<steps, plans, lock, steps0, lang>>

\* ---------------------------------------------- GET /api/plans?plan_id=...
\* AgentMessages of the store, each with the session it belongs to; the
\* session of a plan carries the plan's id.
Messages == {[id |-> "m1", session |-> "p1"], [id |-> "m2", session |-> "p1"],
             [id |-> "m3", session |-> "p2"]}
SessionOf(p) == p

\* memory_store.get_steps_by_plan(plan_id): the plan's steps as stored now.
LoadSteps(st, p) == [s \in StepsOf(p) |-> st[s]]

\* memory_store.get_data_by_type_and_session_id("agent_message", session_id).
get_data_by_type_and_session_id(session) == {m \in Messages : m.session = session}

\* config.get_user_local_browser_language(): the language the configuration
\* holds now.  format_dates_in_messages: each message's date is rendered in the
\* language given.
get_user_local_browser_language == lang
format_dates_in_messages(messages, language) ==
    {[id |-> m.id, session |-> m.session, date |-> language] : m \in messages}

\* PlanWithSteps.update_step_counts(): the number of steps per status, counted
\* on the steps the record holds.
update_step_counts(loaded) ==
    [x \in StepStatus |-> Cardinality({s \in DOMAIN loaded : loaded[s] = x})]

\* PlanWithSteps(**plan.model_dump(), steps=steps) followed by
\* update_step_counts(): the aggregated record of one plan.
PlanWithStepsNoUpdate(p, loaded) == [id |-> p, steps |-> loaded, counts |-> [x \in StepStatus |-> 0]]
PlanWithSteps(p, loaded) == [id |-> p, steps |-> loaded, counts |-> update_step_counts(loaded)]

\* `if not plan:` on what get_plan_by_plan_id returned.
PlanAlwaysFound(p) == FALSE
PlanMissing(p) == p \notin Plans

\* `if plan_id:` and the await of get_plan_by_plan_id: an unknown plan tracks
\* "GetPlanBySessionNotFound" and raises 404 before any other read.
PlanById(r) ==
    /\ rq[r].pc = "list" /\ rq[r].op = "plans" /\ rq[r].plan # ""
    /\ LET req == [rq[r] EXCEPT !.reads = @ \cup {"plan"}] IN
       IF PlanMissing(req.plan)
       THEN Done(r, Emit(req, "GetPlanBySessionNotFound", PlainStatus("Plan not found")),
                 PlanNotFoundError)
       ELSE rq' = [rq EXCEPT ![r] = [req EXCEPT !.pc = "plan_steps"]]
    /\ UNCHANGED <<steps, plans, lock, steps0, lang>>

\* The await of memory_store.get_steps_by_plan(plan_id=plan.id) resumes.
PlanSteps(r) ==
    /\ rq[r].pc = "plan_steps"
    /\ rq' = [rq EXCEPT ![r] = [@ EXCEPT !.pc = "plan_messages",
                                         !.reads = @ \cup {"steps"},
                                         !.got[rq[r].plan] = LoadSteps(steps, rq[r].plan)]]
    /\ UNCHANGED <<steps, plans, lock, steps0, lang>>

\* The await of get_data_by_type_and_session_id resumes; the record is built,
\* the messages are formatted, [plan_with_steps, formatted_messages] returned.
PlanMessages(r) ==
    /\ rq[r].pc = "plan_messages"
    /\ LET req == [rq[r] EXCEPT !.reads = @ \cup {"messages"}]
           messages == get_data_by_type_and_session_id(SessionOf(req.plan))
           plan_with_steps == PlanWithSteps(req.plan, req.got[req.plan])
           formatted_messages ==
               format_dates_in_messages(messages, get_user_local_browser_language)
       IN Done(r, [req EXCEPT !.body = Body(<<plan_with_steps>>, formatted_messages)],
               Ok(PlainStatus("")))
    /\ UNCHANGED <<steps, plans, lock, steps0, lang>>

\* ------------------------------------------- GET /api/plans without plan_id
\* Teams of the store and the plans of each (get_all_plans_by_team_id); "" is
\* the falsy value get_current_team gives a user without a current team.
Teams == {"t1", "t2"}
TeamPlans(t) == IF t = "t1" THEN <<"p1", "p2">> ELSE <<"p2">>
Range(q) == {q[i] : i \in 1 .. Len(q)}

\* `if not current_team:`
TeamAlwaysThere(t) == FALSE
NoTeam(t) == t = ""

\* The await of memory_store.get_current_team resumes: `return []` without a team.
CurrentTeam(r) ==
    /\ rq[r].pc = "list" /\ rq[r].op = "plans" /\ rq[r].plan = ""
    /\ \E t \in {""} \cup Teams :
        LET req == [rq[r] EXCEPT !.reads = @ \cup {"team"}, !.team = t] IN
        IF NoTeam(t)
        THEN Done(r, [req EXCEPT !.body = EmptyBody], Ok(PlainStatus("")))
        ELSE rq' = [rq EXCEPT ![r] = [req EXCEPT !.pc = "all_plans"]]
    /\ UNCHANGED <<steps, plans, lock, steps0, lang>>

\* The await of get_all_plans_by_team_id resumes; asyncio.gather is called on
\* one get_steps_by_plan coroutine per plan: every fetch is now outstanding.
AllPlans(r) ==
    /\ rq[r].pc = "all_plans"
    /\ rq' = [rq EXCEPT ![r] = [@ EXCEPT
                 !.pc = "gather", !.reads = @ \cup {"plans"},
                 !.fetch = [p \in Plans |-> IF p \in Range(TeamPlans(rq[r].team))
                                            THEN "pending" ELSE "none"]]]
    /\ UNCHANGED <<steps, plans, lock, steps0, lang>>

\* History of a request's fetches, in the order they ended; kept only for the
\* requests that trace it (SpecFan).
Completed(req, p) == IF req.trace THEN Append(req.order, p) ELSE req.order

\* One get_steps_by_plan task of the gather ends: with the plan's steps, or
\* with an exception.  A task runs to its end whether or not the request that
\* started it is still waiting.
FetchSteps(r) ==
    /\ \E p \in Plans :
        /\ rq[r].fetch[p] = "pending"
        /\ \/ rq' = [rq EXCEPT ![r] = [@ EXCEPT !.fetch[p] = "ok",
                                                 !.reads = @ \cup {"steps"},
                                                 !.got[p] = LoadSteps(steps, p),
                                                 !.order = Completed(rq[r], p)]]
           \/ rq' = [rq EXCEPT ![r] = [@ EXCEPT !.fetch[p] = "failed",
                                                 !.order = Completed(rq[r], p)]]
    /\ UNCHANGED <<steps, plans, lock, steps0, lang>>

\* What get_plans returns after the loop that builds list_of_plans_with_steps.
ReturnOfListing(built) == <<>>

\* What asyncio.gather returns: the results in the order of the awaitables it
\* was given, whatever order they ended in.
GatherResultsReversed(all_plans, got) ==
    [i \in 1 .. Len(all_plans) |-> got[all_plans[Len(all_plans) + 1 - i]]]
GatherResults(all_plans, got) ==
    [i \in 1 .. Len(all_plans) |-> got[all_plans[i]]]

\* The await of asyncio.gather resumes: with the first exception of a fetch
\* (the other tasks are left running), or, once every fetch has its result,
\* with the results in the order of all_plans; the records are built.
Gather(r) ==
    /\ rq[r].pc = "gather"
    /\ LET req == rq[r]
           all_plans == TeamPlans(req.team) IN
       \/ /\ \E p \in Range(all_plans) : req.fetch[p] = "failed"
          /\ Done(r, [req EXCEPT !.fault = "fetch"], Unhandled("get_steps_by_plan failed"))
       \/ /\ \A p \in Range(all_plans) : req.fetch[p] = "ok"
          /\ LET steps_for_all_plans == GatherResults(all_plans, req.got)
                 built == [i \in 1 .. Len(all_plans) |->
                              PlanWithSteps(all_plans[i], steps_for_all_plans[i])]
             IN Done(r, [req EXCEPT !.built = built,
                                    !.body = Body(ReturnOfListing(built), {})],
                     Ok(PlainStatus("")))
    /\ UNCHANGED <<steps, plans, lock, steps0, lang>>

\* memory_store.get_data_by_type("agent_message"): the call names the type and
\* nothing else, so every AgentMessage of the store is in its result.
get_data_by_type == Messages

\* GET /api/steps/{plan_id} and GET /api/agent_messages/{session_id}: the one
\* store read of the request and its return.
ListResult(r) ==
    /\ rq[r].pc = "list" /\ rq[r].op \in {"steps", "messages"}
    /\ LET req == [rq[r] EXCEPT !.reads = @ \cup {rq[r].op}] IN
       IF req.op = "messages"
       THEN Done(r, [req EXCEPT !.body = Body(<<>>, get_data_by_type)], Ok(PlainStatus("")))
       ELSE Done(r, req, Ok(PlainStatus("")))
    /\ UNCHANGED <<steps, plans, lock, steps0, lang>>

\* POST /api/user_browser_language: config.set_user_local_browser_language
\* stores the language of the body for the whole process; no identity is asked.
user_browser_language_endpoint ==
    /\ \E l \in Languages : lang' = l
    /\ UNCHANGED <<rq, steps, plans, lock, steps0>>

Next ==
    \E r \in Reqs :
        \/ human_feedback_endpoint(r)
        \/ human_clarification_endpoint(r)
        \/ approve_step_endpoint(r)
        \/ create_agent(r)
        \/ create_all_agents(r)
        \/ HandlerLoad(r)
        \/ HandlerCommit(r)
        \/ handle_human_clarification(r)
        \/ Respond(r)
        \/ get_plans(r)
        \/ get_steps_by_plan(r)
        \/ get_agent_messages(r)
        \/ PlanById(r)
        \/ PlanSteps(r)
        \/ PlanMessages(r)
        \/ CurrentTeam(r)
        \/ AllPlans(r)
        \/ FetchSteps(r)
        \/ Gather(r)
        \/ ListResult(r)

Spec == Init /\ [][Next]_vars

\* The same program with a Telemetry Sink that takes the events of "r1" and
\* fails on every emission of "r2".
InitEmit ==
    /\ rq = [r \in Reqs |-> [IdleReq EXCEPT !.emitOk = (r = "r1")]]
    /\ steps \in InitSteps
    /\ plans = [p \in Plans |-> Aggregate(steps, p)]
    /\ lock = [p \in Plans |-> ""]
    /\ steps0 = steps
    /\ lang = DefaultLanguage

SpecEmit == InitEmit /\ [][Next]_vars

\* The same program, each request tracing the order in which its fetches end;
\* every step of "p1" is still to be decided.
InitFan ==
    /\ rq = [r \in Reqs |-> [IdleReq EXCEPT !.trace = TRUE]]
    /\ steps \in {f \in InitSteps : \A s \in P1Steps : f[s] \in Pending}
    /\ plans = [p \in Plans |-> Aggregate(steps, p)]
    /\ lock = [p \in Plans |-> ""]
    /\ steps0 = steps
    /\ lang = DefaultLanguage

SpecFan == InitFan /\ [][Next]_vars

\* The program with callers of POST /api/user_browser_language.
NextLang ==
    \/ Next
    \/ user_browser_language_endpoint

SpecLang == Init /\ [][NextLang]_vars

\* ------------------------------------------------------------------ claims
Finished(r) == rq[r].pc = "done"
Mutating == {"feedback", "clarification", "approve"}
Surface == Mutating \cup {"plans", "steps", "messages"}

\* C1: a request of any surface operation that carries no user id ends with
\* Unauthenticated (400 "no user"), and has by then made no Plan Store access,
\* no Agent Directory lookup and no agent handler call.
C1_NoUserIsUnauthenticated ==
    \A r \in Reqs :
        (Finished(r) /\ rq[r].op \in Surface /\ rq[r].user = "")
            => /\ rq[r].res = NoUserError
               /\ ~rq[r].db /\ ~rq[r].dir /\ ~rq[r].handler /\ ~rq[r].wrote

\* C2: a clarification whose text the Content Safety Gate denies ends with
\* ContentRejected carrying at least one suggestion; the Agent Directory was
\* not asked, the handler was not called and the request wrote nothing.
C2_DeniedClarificationRejected ==
    \A r \in Reqs :
        (rq[r].op = "clarification" /\ rq[r].text = "harmful")
            => /\ Finished(r)
               /\ rq[r].res.kind = "ContentRejected"
               /\ rq[r].res.suggestions >= 1
               /\ ~rq[r].db /\ ~rq[r].dir /\ ~rq[r].handler /\ ~rq[r].wrote

C2_Witness ==
    \E r \in Reqs :
        /\ Finished(r) /\ rq[r].op = "clarification"
        /\ rq[r].text = "harmful" /\ rq[r].user = "u1"
        /\ rq[r].res = RaiError

\* C3: when a feedback, clarification or approval request ends, the
\* execution-client handle it acquired is no longer open.
C3_ClientReleasedOnEveryExit ==
    \A r \in Reqs :
        (Finished(r) /\ rq[r].op \in Mutating) => rq[r].client # "open"

\* C4: a feedback or (allowed) clarification request for which the Agent
\* Directory yields no Human agent ends with AgentNotFound (404), without a
\* handler call and without a write.
C4_NoHumanAgentIsAgentNotFound ==
    \A r \in Reqs :
        (Finished(r) /\ rq[r].op \in {"feedback", "clarification"} /\ rq[r].agent = "None")
            => /\ rq[r].res = AgentNotFoundError
               /\ ~rq[r].handler /\ ~rq[r].wrote

\* C5: an approval for which the created agents lack the group chat manager
\* ends with AgentNotFound, without a write.
C5_NoManagerIsAgentNotFound ==
    \A r \in Reqs :
        (Finished(r) /\ rq[r].op = "approve" /\ rq[r].agent = "no_manager")
            => /\ rq[r].res.kind = "AgentNotFound"
               /\ ~rq[r].handler /\ ~rq[r].wrote

\* The step statuses that running the feedbacks of the requests W one after
\* the other, in any order, can leave, starting from st.
RECURSIVE SerialSteps(_, _)
SerialSteps(W, st) ==
    IF W = {} THEN {st}
    ELSE UNION {SerialSteps(W \ {q}, ApplyFeedback(rq[q], st)) : q \in W}

Succeeded(r) == Finished(r) /\ rq[r].res.kind = "ok"
Feedbacks == {"feedback", "approve"}
Targeted(r) == rq[r].op \in Feedbacks /\ rq[r].step \in StepsOf(rq[r].plan)
Bulk(r) == rq[r].op \in Feedbacks /\ rq[r].step = NoStep
StatusesConsistent == plans = [p \in Plans |-> Aggregate(steps, p)]

\* C6: two targeted approvals (approved = true) of two different steps of one
\* plan, run concurrently: neither fails because of the other, and once both
\* have succeeded every named step that was pending is approved, the others are
\* as they were, and overall_status is the aggregate of the final statuses.
C6_ConcurrentTargetedNoLostUpdate ==
    \A r, q \in Reqs :
        (/\ r # q
         /\ rq[r].op = "approve" /\ rq[q].op = "approve"
         /\ Targeted(r) /\ Targeted(q)
         /\ rq[r].step # rq[q].step /\ rq[r].approved /\ rq[q].approved
         /\ Finished(r) /\ Finished(q) /\ rq[r].handler /\ rq[q].handler)
            => /\ (Succeeded(r) \/ rq[r].res = Unhandled("store write failed"))
               /\ (Succeeded(r) /\ Succeeded(q)) =>
                    /\ \A s \in StepIds :
                         steps[s] = IF s \in {rq[r].step, rq[q].step} /\ steps0[s] \in Pending
                                    THEN "approved" ELSE steps0[s]
                    /\ StatusesConsistent

C6_Witness ==
    \E r, q \in Reqs :
        /\ r # q /\ rq[r].op = "approve" /\ rq[q].op = "approve"
        /\ Succeeded(r) /\ Succeeded(q)
        /\ rq[r].approved /\ rq[q].approved
        /\ rq[r].step = 1 /\ rq[q].step = 2
        /\ steps0[1] \in Pending /\ steps0[2] \in Pending
        /\ steps[1] = "approved" /\ steps[2] = "approved"
        /\ plans["p1"] = "in_progress"

\* C7: a bulk feedback and a targeted feedback on the same plan, run
\* concurrently: once both have succeeded, the step statuses are those of
\* running the two one after the other in some order, and overall_status is
\* the aggregate of those statuses.
C7_BulkAndTargetedSerialize ==
    \A r, q \in Reqs :
        (/\ Bulk(r) /\ Targeted(q) /\ rq[r].plan = rq[q].plan
         /\ Succeeded(r) /\ Succeeded(q))
            => /\ steps \in SerialSteps({r, q}, steps0)
               /\ StatusesConsistent

C7_Witness ==
    \E r, q \in Reqs :
        /\ Bulk(r) /\ Targeted(q) /\ Succeeded(r) /\ Succeeded(q)
        /\ rq[r].approved /\ ~rq[q].approved
        /\ \A s \in P1Steps : steps0[s] \in Pending
        /\ steps[rq[q].step] = "rejected"
        /\ \A s \in P1Steps \ {rq[q].step} : steps[s] = "approved"

\* C8: a bulk feedback that failed after it reached the handler has changed no
\* step: the store holds exactly what the requests that did write produce, and
\* the initial statuses when no request wrote.
C8_FailedBulkWritesNothing ==
    \A r \in Reqs :
        (Bulk(r) /\ Finished(r) /\ rq[r].handler /\ ~Succeeded(r))
            => /\ ~rq[r].wrote
               /\ steps \in SerialSteps({q \in Reqs : rq[q].wrote}, steps0)
               /\ StatusesConsistent

C8_Witness ==
    \E r \in Reqs :
        /\ Bulk(r) /\ Finished(r) /\ rq[r].handler
        /\ rq[r].res = Unhandled("store write failed")
        /\ Cardinality({s \in P1Steps : rq[r].snap[s] \in Pending}) >= 2
        /\ steps = steps0

\* C9: a successful bulk approval (approved = true, no step_id) leaves every
\* step of the plan that was planned or awaiting approval approved and every
\* other step as it was, and returns exactly "All steps approved".
C9_BulkApproval ==
    \A r \in Reqs :
        (rq[r].op = "approve" /\ rq[r].step = NoStep /\ rq[r].approved /\ Succeeded(r))
            => /\ rq[r].res.status = PlainStatus("All steps approved")
               /\ \A s \in StepsOf(rq[r].plan) :
                    steps[s] = IF rq[r].snap[s] \in Pending THEN "approved" ELSE rq[r].snap[s]
               /\ \A s \in StepIds \ StepsOf(rq[r].plan) : steps[s] = steps0[s]

C9_Witness ==
    \E r \in Reqs :
        /\ rq[r].op = "approve" /\ rq[r].step = NoStep /\ rq[r].approved /\ Succeeded(r)
        /\ steps0[1] = "planned" /\ steps0[2] = "rejected"
        /\ steps[1] = "approved" /\ steps[2] = "rejected"

\* C10: a targeted approval that reaches the handler with a step_id of another
\* plan ends with StepNotFound; whatever happens to such a request, it never
\* returns success and never writes.
C10_ForeignStepIsStepNotFound ==
    \A r \in Reqs :
        (/\ rq[r].op = "approve" /\ rq[r].step # NoStep
         /\ PlanOf(rq[r].step) # rq[r].plan /\ Finished(r))
            => /\ ~Succeeded(r)
               /\ ~rq[r].wrote
               /\ rq[r].handler => rq[r].res.kind = "StepNotFound"

C10_Witness ==
    \E r \in Reqs :
        /\ rq[r].op = "approve" /\ rq[r].step = NSteps + 1 /\ rq[r].plan = "p1"
        /\ Finished(r) /\ rq[r].handler /\ rq[r].res.kind = "StepNotFound"
        /\ steps = steps0

ListPlans(r) == rq[r].op = "plans" /\ rq[r].user # ""
ById(r) == ListPlans(r) /\ rq[r].plan # ""
FanOut(r) == ListPlans(r) /\ rq[r].plan = ""

\* C12: a listPlans request with a plan_id the store does not contain never
\* loads steps or agent messages, and ends with PlanNotFound (404).
C12_UnknownPlanIsPlanNotFound ==
    \A r \in Reqs :
        (ById(r) /\ rq[r].plan \notin Plans)
            => /\ "steps" \notin rq[r].reads /\ "messages" \notin rq[r].reads
               /\ rq[r].pc \in {"list", "done"}
               /\ Finished(r) => /\ rq[r].res.kind = "PlanNotFound"
                                 /\ rq[r].res.http = 404

C12_Witness ==
    \E r \in Reqs :
        /\ ById(r) /\ rq[r].plan = "p9" /\ Finished(r)
        /\ rq[r].res = PlanNotFoundError /\ rq[r].reads = {"plan"}

\* The sum of the per-status counts of an aggregated record.
RECURSIVE SumCounts(_, _)
SumCounts(c, i) == IF i = 0 THEN 0 ELSE c[StatusOrder[i]] + SumCounts(c, i - 1)
TotalCount(c) == SumCounts(c, Len(StatusOrder))

\* C13: a successful listPlans request with a known plan_id returns exactly one
\* record, of that plan, whose count for each status is the number of steps
\* loaded in this request that have the status; the counts sum to the number of
\* steps of the plan; the messages returned are those of the plan's session.
C13_KnownPlanRecordAndCounts ==
    \A r \in Reqs :
        (ById(r) /\ rq[r].plan \in Plans /\ Succeeded(r))
            => /\ Len(rq[r].body.records) = 1
               /\ LET rec == rq[r].body.records[1]
                      loaded == rq[r].got[rq[r].plan] IN
                  /\ rec.id = rq[r].plan
                  /\ rec.steps = loaded
                  /\ DOMAIN loaded = StepsOf(rq[r].plan)
                  /\ \A x \in StepStatus :
                        rec.counts[x] = Cardinality({s \in StepsOf(rq[r].plan) : loaded[s] = x})
                  /\ TotalCount(rec.counts) = Cardinality(StepsOf(rq[r].plan))
               /\ {m.id : m \in rq[r].body.messages}
                     = {m.id : m \in {n \in Messages : n.session = SessionOf(rq[r].plan)}}
               /\ \A m \in rq[r].body.messages : m.session = SessionOf(rq[r].plan)

C13_Witness ==
    \E r \in Reqs :
        /\ ById(r) /\ rq[r].plan = "p1" /\ Succeeded(r)
        /\ rq[r].body.records[1].counts["planned"] = 2
        /\ rq[r].body.records[1].counts["approved"] = 0
        /\ steps[1] = "approved" /\ steps[2] = "approved"
        /\ Cardinality(rq[r].body.messages) = 2

\* C14: a listPlans request without plan_id whose user has no current team ends
\* at once with success and an empty sequence, having read only the team.
C14_NoTeamIsEmptySuccess ==
    \A r \in Reqs :
        (FanOut(r) /\ "team" \in rq[r].reads /\ rq[r].team = "")
            => /\ Finished(r)
               /\ rq[r].res.kind = "ok" /\ rq[r].res.http = 200
               /\ rq[r].body.records = <<>>
               /\ rq[r].reads = {"team"}
               /\ \A p \in Plans : rq[r].fetch[p] = "none"

C14_Witness ==
    \E r \in Reqs :
        /\ FanOut(r) /\ Finished(r) /\ rq[r].team = "" /\ rq[r].reads = {"team"}
        /\ rq[r].res = Ok(PlainStatus("")) /\ rq[r].body = EmptyBody

\* C15: a successful listPlans request without plan_id, for a user whose team
\* has n plans, returns n records, the i-th of the i-th plan of the team with
\* that plan's steps and their counts.
C15_FanOutReturnsOneRecordPerPlan ==
    \A r \in Reqs :
        (FanOut(r) /\ rq[r].team \in Teams /\ Succeeded(r))
            => /\ Len(rq[r].body.records) = Len(TeamPlans(rq[r].team))
               /\ \A i \in 1 .. Len(rq[r].body.records) :
                    /\ rq[r].body.records[i].id = TeamPlans(rq[r].team)[i]
                    /\ rq[r].body.records[i].counts
                          = update_step_counts(rq[r].body.records[i].steps)

\* C16: a fan-out listing in which the step fetch of one plan failed does not
\* fail as a whole: it ends with success.
C16_FailedFetchDoesNotFailListing ==
    \A r \in Reqs :
        (/\ FanOut(r) /\ Finished(r)
         /\ \E p \in Plans : rq[r].fetch[p] = "failed"
         /\ \E p \in Plans : rq[r].fetch[p] = "ok")
            => rq[r].res.kind = "ok"

\* C17: the records of a fan-out listing are built only when every fetch has
\* its result, and when the request has ended none of its fetches is still
\* outstanding.
C17_NoFetchOutstandingAtEnd ==
    \A r \in Reqs :
        /\ rq[r].built # <<>> =>
              \A p \in Range(TeamPlans(rq[r].team)) : rq[r].fetch[p] = "ok"
        /\ (FanOut(r) /\ Finished(r)) => \A p \in Plans : rq[r].fetch[p] # "pending"

\* C18: a successful approval returns a status and its last event carries the
\* same status: with a step_id the status names the step and the request's
\* approved value, without one it is "All steps approved".
C18_ApprovalStatusAndEventAgree ==
    \A r \in Reqs :
        (rq[r].op = "approve" /\ Succeeded(r))
            => /\ Len(rq[r].events) >= 1
               /\ rq[r].events[Len(rq[r].events)].status = rq[r].res.status
               /\ rq[r].step # NoStep =>
                    rq[r].res.status
                        = Status("Step - Approval", rq[r].step, BoolStr(rq[r].approved))
               /\ rq[r].step = NoStep =>
                    rq[r].res.status = PlainStatus("All steps approved")

C18_Witness ==
    \E r \in Reqs :
        /\ rq[r].op = "approve" /\ Succeeded(r) /\ rq[r].step = 2 /\ ~rq[r].approved
        /\ rq[r].events = <<Event("Completed Human clarification with step_id",
                                  Status("Step - Approval", 2, "False"))>>
        /\ rq[r].res.status = Status("Step - Approval", 2, "False")

\* C19: a feedback, clarification or approval request in which the agent's
\* handler or the store failed ends with DownstreamUnavailable.
C19_DownstreamFailureIsSanitized ==
    \A r \in Reqs :
        (Finished(r) /\ rq[r].op \in Mutating /\ rq[r].fault \in {"handler", "store"})
            => rq[r].res.kind = "DownstreamUnavailable"

\* Two requests made the same call and met the same downstream outcomes.
SameCall(r, q) ==
    /\ rq[r].op = rq[q].op /\ rq[r].user = rq[q].user /\ rq[r].plan = rq[q].plan
    /\ rq[r].step = rq[q].step /\ rq[r].approved = rq[q].approved
    /\ rq[r].text = rq[q].text /\ rq[r].agent = rq[q].agent
    /\ rq[r].fault = rq[q].fault /\ rq[r].team = rq[q].team
    /\ rq[r].fetch = rq[q].fetch /\ rq[r].got = rq[q].got

\* C20: of two finished requests that made the same call and met the same
\* downstream outcomes, one whose emissions succeeded and one whose emissions
\* failed, the responses, the bodies and the writes are the same; a failed
\* emission changes nothing but the events recorded.
C20_TelemetryFailureChangesNothing ==
    \A r, q \in Reqs :
        (/\ Finished(r) /\ Finished(q) /\ rq[r].emitOk /\ ~rq[q].emitOk
         /\ SameCall(r, q))
            => /\ rq[r].res = rq[q].res
               /\ rq[r].body = rq[q].body
               /\ rq[r].wrote = rq[q].wrote
               /\ rq[r].client = rq[q].client
               /\ rq[q].lost <=> rq[r].events # <<>>

C20_Witness ==
    \E r, q \in Reqs :
        /\ Finished(r) /\ Finished(q) /\ rq[r].emitOk /\ ~rq[q].emitOk
        /\ SameCall(r, q) /\ rq[r].op = "approve" /\ rq[r].step = 1
        /\ Succeeded(r) /\ Succeeded(q)
        /\ rq[q].lost /\ rq[q].events = <<>> /\ Len(rq[r].events) = 1
        /\ steps0[1] = "planned" /\ steps[1] = "approved"

\* C21: a successful list-agent-messages request for a session returns the
\* AgentMessages of that session, all of them and no other.
C21_MessagesOfRequestedSessionOnly ==
    \A r \in Reqs :
        (rq[r].op = "messages" /\ Succeeded(r))
            => rq[r].body.messages = {m \in Messages : m.session = rq[r].plan}

\* C22: a clarification request without a user id ends with Unauthenticated
\* whatever its text, and the Content Safety Gate was not called for it.
C22_IdentityBeforeGate ==
    \A r \in Reqs :
        (rq[r].op = "clarification" /\ rq[r].user = "" /\ Finished(r))
            => /\ rq[r].res.kind = "Unauthenticated"
               /\ ~rq[r].gate

\* C23: two successful listPlans(plan_id) requests by the same user for the
\* same plan that loaded the same steps return the same body, whatever ran
\* before or between them.
C23_ListingDeterministicInItsInputs ==
    \A r, q \in Reqs :
        (/\ ById(r) /\ ById(q) /\ Succeeded(r) /\ Succeeded(q)
         /\ rq[r].user = rq[q].user /\ rq[r].plan = rq[q].plan
         /\ rq[r].got = rq[q].got)
            => rq[r].body = rq[q].body

\* C24: a successful approval without step_id returns "All steps approved" and
\* tracks an event with that status, for approved = true and approved = false
\* alike: two such requests with different approved values answer the same.
C24_BulkStatusIgnoresApproved ==
    /\ \A r \in Reqs :
        (rq[r].op = "approve" /\ rq[r].step = NoStep /\ Succeeded(r))
            => /\ rq[r].res = Ok(PlainStatus("All steps approved"))
               /\ rq[r].events = <<Event("Completed Human clarification without step_id",
                                         PlainStatus("All steps approved"))>>
    /\ \A r, q \in Reqs :
        (/\ rq[r].op = "approve" /\ rq[q].op = "approve"
         /\ rq[r].step = NoStep /\ rq[q].step = NoStep
         /\ Succeeded(r) /\ Succeeded(q))
            => rq[r].res = rq[q].res /\ rq[r].events = rq[q].events

C24_Witness ==
    \E r, q \in Reqs :
        /\ rq[r].op = "approve" /\ rq[q].op = "approve"
        /\ rq[r].step = NoStep /\ rq[q].step = NoStep
        /\ rq[r].approved /\ ~rq[q].approved
        /\ Succeeded(r) /\ Succeeded(q)
        /\ rq[q].wrote /\ \E s \in P1Steps : steps[s] = "rejected" /\ steps0[s] \in Pending
        /\ rq[q].res.status = PlainStatus("All steps approved")

\* C25: in a fan-out listing that built its records, there is one record per
\* plan of the team, the i-th record is of the i-th plan and holds exactly the
\* steps the fetch issued for that plan loaded, whatever order the fetches
\* ended in.
C25_RecordsPairedWithOwnFetch ==
    \A r \in Reqs :
        (FanOut(r) /\ rq[r].team \in Teams /\ Succeeded(r))
            => LET all_plans == TeamPlans(rq[r].team) IN
               /\ Len(rq[r].built) = Len(all_plans)
               /\ \A i \in 1 .. Len(all_plans) :
                    /\ rq[r].built[i].id = all_plans[i]
                    /\ rq[r].built[i].steps = rq[r].got[all_plans[i]]
                    /\ DOMAIN rq[r].built[i].steps = StepsOf(all_plans[i])

C25_Witness ==
    \E r \in Reqs :
        /\ FanOut(r) /\ rq[r].team = "t1" /\ Succeeded(r)
        /\ rq[r].order = <<"p2", "p1">>
        /\ Len(rq[r].built) = 2
        /\ rq[r].built[1].id = "p1" /\ rq[r].built[1].steps = rq[r].got["p1"]
        /\ rq[r].built[2].id = "p2"
        /\ rq[r].got["p1"] # LoadSteps(steps0, "p1")
====
